---- MODULE Spec2Model ----
(***************************************************************************)
(* Model of the session-and-admission subsystem of the FastAPI todo        *)
(* backend: credential issuer and revocation registry (src/utils/jwt.py,   *)
(* src/auth), read-through cache (src/utils/redis_client.py,               *)
(* src/todo/services/todo.py), rate limiter (src/utils/rate_limiter.py)    *)
(* and reminder scheduler (src/utils/reminder_scheduler.py).               *)
(*                                                                         *)
(* Modelling conventions                                                   *)
(*  - Time is the wall clock in whole seconds, as the code reads it with   *)
(*    int(datetime.utcnow().timestamp()).  The host's local zone is UTC,   *)
(*    so that value is the epoch second PyJWT and Redis also use.          *)
(*  - The Redis key space is partitioned by key prefix into one variable   *)
(*    per prefix (blacklist:, user:, todos:, rate_limit:).  Every entry    *)
(*    carries the instant at which Redis drops it (expireAt).              *)
(*  - Names used by the code without an import (redis_client in jwt.py,    *)
(*    security and rate_limiter in auth/routes/auth.py, redis in           *)
(*    rate_limiter.py) resolve to the objects of the same name defined in  *)
(*    redis_client.py, dependencies.py and rate_limiter.py.                *)
(*  - A request handler is one step.  Where a handler calls the key-value *)
(*    store more than once, its parameter lost stands for the store        *)
(*    becoming unreachable between two of these calls.                     *)
(***************************************************************************)
EXTENDS Integers, Sequences, FiniteSets, TLC

VARIABLES now, ekvUp, users,
          issued, nextJti, blacklist, userCache, pendingLogout, revoked, resp,
          todos, nextTodoId, todosCache, todoResp, mutatedSince,
          schedPc, schedNow, schedQueue, runNotified, nextRun, sends, markFailed,
          attempts,
          rate, window, rateResp,
          kv, kvSet,
          pendingRead,
          rlPending, rlAllowed, rlDenied,
          peerPc, peerNow, peerQueue, peerNextRun, peerSends,
          allowedAt,
          regPending, regResp

authVars == <<issued, nextJti, blacklist, userCache, pendingLogout, revoked, resp>>

todoVars == <<todos, nextTodoId, todosCache, todoResp, mutatedSince>>

schedVars == <<schedPc, schedNow, schedQueue, runNotified, nextRun, sends, markFailed,
               attempts>>

rateVars == <<rate, window, rateResp>>

kvVars == <<kv, kvSet>>

raceVars == <<pendingRead>>

burstVars == <<rlPending, rlAllowed, rlDenied>>

peerVars == <<peerPc, peerNow, peerQueue, peerNextRun, peerSends>>

\* the instants of the allowed requests, kept by the steps that study windows
histVars == <<allowedAt>>

regVars == <<regPending, regResp>>

extVars == <<kvVars, raceVars, burstVars, peerVars, histVars, regVars>>

vars == <<now, ekvUp, users, authVars, todoVars, schedVars, rateVars, extVars>>

(***************************************************************************)
(* Bounds of the model                                                     *)
(***************************************************************************)
MaxTokens == 2

\* the instants at which the authentication model observes the clock
AuthInstants == {0, 600, 1799, 1800}

\* the instants at which the scheduler model observes the clock
SchedInstants == {0, 36000, 37800, 40000}

\* the instants at which the cache model observes the clock
CacheInstants == {0, 36000}

MaxTodos == 1

\* records in the store in the runs that iterate over several candidates
MaxRunTodos == MaxTodos + 1

\* successful notifications counted per record
MaxSends == 2

\* the deadline a request may carry
DueTime == 40000

\* calls of the notification collaborator counted per record
MaxAttempts == 2

\* the instants at which the read-path model observes the clock
ReadInstants == {0, 300, 600}

\* the instants at which the cadence model observes the clock
CadenceInstants == {0, 90, 100, 1800, 3600}

\* the lifetimes (completion_time - created_at) a record of the cadence model has
Durations == {100, 2000}

\* the instants at which the rate limiter model observes the clock
RateInstants == {0, 59, 60, 3600}

\* requests counted beyond the limit of a scope
MaxOver == 2

Callers == {"ip1", "ip2"}

UserIds == {"u1", "u2"}

(***************************************************************************)
(* Program constants                                                       *)
(***************************************************************************)
ACCESS_TOKEN_EXPIRE_MINUTES == 30

UserCacheExpire == 600

TodosCacheExpire == 300

SchedulerIntervalMinutes == 30

NoExpiry == -1

None == -1

(***************************************************************************)
(* Helpers for the key-value store                                         *)
(***************************************************************************)
Restrict(f, S) == [x \in S |-> f[x]]

Remove(f, k) == Restrict(f, DOMAIN f \ {k})

\* a store that keeps no key over a step of the clock
LiveNever(e, t) == FALSE

\* Redis drops a key once its expiry instant is reached
Live(e, t) == e.expireAt = NoExpiry \/ e.expireAt > t

Purge(f, t) == Restrict(f, {k \in DOMAIN f : Live(f[k], t)})

\* a setex that drops every other key of the key space
SetexAlone(f, k, ttl, v) == (k :> [val |-> v, expireAt |-> now + ttl])

\* redis_client.setex(key, ttl, value)
Setex(f, k, ttl, v) == (k :> [val |-> v, expireAt |-> now + ttl]) @@ f

\* A Python value is a record [t, a]: t is its type, a its content. The
\* content of a container lists its items (a dict: its keys and values), which
\* are None, booleans, numbers, strings or containers of these with string
\* keys; the keys of an intdict are integers.
PyList(items) == [t |-> "list", a |-> items]

PyDict(d) == [t |-> "dict", a |-> d]

PyNone == [t |-> "NoneType", a |-> <<>>]

\* the JSON type json.dumps writes for a Python type: a tuple is written as
\* an array and the integer keys of a dict as strings
JsonType(t) ==
    CASE t \in {"list", "tuple"} -> "array"
      [] t \in {"dict", "intdict"} -> "object"
      [] t = "str" -> "string"
      [] t = "int" -> "number"
      [] t = "bool" -> "boolean"
      [] OTHER -> "null"

\* the Python type of the value json.loads builds for a JSON type
PyType(j) ==
    CASE j = "array" -> "list"
      [] j = "object" -> "dict"
      [] j = "string" -> "str"
      [] j = "number" -> "int"
      [] j = "boolean" -> "bool"
      [] OTHER -> "NoneType"

\* json.dumps(value): the JSON text, as its type and content
JsonDumps(v) == [j |-> JsonType(v.t), a |-> v.a]

\* json.loads that builds a tuple for an array
JsonLoadsArrayAsTuple(s) == [t |-> IF s.j = "array" THEN "tuple" ELSE PyType(s.j), a |-> s.a]

\* json.loads(value)
JsonLoads(s) == [t |-> PyType(s.j), a |-> s.a]

(***************************************************************************)
(* User store                                                              *)
(***************************************************************************)
\* the response of the last completed register request
RegResp(email, status) == [email |-> email, status |-> status]

\* a stored user; every user of the initial store has an email of its own
UserDoc(u) == [_id |-> u, name |-> "n", email |-> "e:" \o u, password |-> "hash"]

(***************************************************************************)
(* Credential issuer                                                       *)
(***************************************************************************)
\* a token whose signature does not verify under JWT_SECRET
BadToken == [sub |-> "u1", iat |-> 0, exp |-> 0, jti |-> 0, sig |-> FALSE]

Presentable == issued \cup {BadToken}

create_access_token(identity, jti) ==
    [sub |-> identity, iat |-> now, exp |-> now + ACCESS_TOKEN_EXPIRE_MINUTES * 60,
     jti |-> jti, sig |-> TRUE]

\* jwt.decode(token, JWT_SECRET, algorithms=[...]): signature, then exp
jwt_decode(tok) ==
    IF ~tok.sig THEN [ok |-> FALSE, err |-> "InvalidTokenError"]
    ELSE IF tok.exp <= now THEN [ok |-> FALSE, err |-> "ExpiredSignatureError"]
    ELSE [ok |-> TRUE, err |-> "none"]

\* decode_token without the lookup of blacklist:<jti>
decode_token_unchecked(tok) ==
    LET d == jwt_decode(tok) IN
    IF ~d.ok THEN d
    ELSE IF ~ekvUp THEN [ok |-> FALSE, err |-> "ConnectionError"]
    ELSE [ok |-> TRUE, err |-> "none"]

decode_token(tok) ==
    LET d == jwt_decode(tok) IN
    IF ~d.ok THEN d
    ELSE IF ~ekvUp THEN [ok |-> FALSE, err |-> "ConnectionError"]
    ELSE IF tok.jti \in DOMAIN blacklist THEN [ok |-> FALSE, err |-> "InvalidTokenError"]
    ELSE [ok |-> TRUE, err |-> "none"]

\* revoke_jti with a TTL one second too long
revoke_jti_long(jti, exp) ==
    LET ttl == exp - now IN
    IF ttl > 0 THEN Setex(blacklist, jti, ttl + 1, "revoked") ELSE blacklist

\* revoke_jti(jti, exp): the blacklist after the call
revoke_jti(jti, exp) ==
    LET ttl == exp - now IN
    IF ttl > 0 THEN Setex(blacklist, jti, ttl, "revoked") ELSE blacklist

\* get_cache that answers from the entry whether or not the store is reachable
get_cache_unguarded(cache, key) ==
    IF key \in DOMAIN cache THEN <<JsonLoads(cache[key].val)>> ELSE <<>>

\* get_cache / set_cache swallow every Redis error
\* the result is a sequence: <<>> for Python's None, <<v>> for the value v
get_cache(cache, key) ==
    IF ekvUp /\ key \in DOMAIN cache THEN <<JsonLoads(cache[key].val)>> ELSE <<>>

\* SETEX refuses an expiry that is not positive
set_cache(cache, key, value, expire) ==
    IF ekvUp /\ expire > 0 THEN Setex(cache, key, expire, JsonDumps(value)) ELSE cache

\* delete_cache that leaves the key in place
delete_cache_kept(cache, key) == cache

delete_cache(cache, key) ==
    IF ekvUp THEN Remove(cache, key) ELSE cache

\* cache_exists: redis_client.exists(key) > 0, False on every Redis error
cache_exists(cache, key) == ekvUp /\ key \in DOMAIN cache

\* the response of the last completed operation
Resp(op, tok, status, body, loaded) ==
    [op |-> op, tok |-> tok, status |-> status, body |-> body,
     loaded |-> loaded, ekv |-> ekvUp]

(***************************************************************************)
(* Registration: register_user_service in its two calls of the user store, *)
(* other requests running in between                                       *)
(***************************************************************************)
\* the _id values insert_one gives to new users, in the order of insertion
RegIds == <<"u3", "u4", "u5", "u6">>

\* the emails of the register requests: one of a stored user and new ones
RegEmails == {"e:u1", "e:a", "e:b"}

Registered == Cardinality(DOMAIN users) - Cardinality(UserIds)

RECURSIVE InFlight(_)
InFlight(E) ==
    IF E = {} THEN 0
    ELSE LET e == CHOOSE x \in E : TRUE IN regPending[e] + InFlight(E \ {e})

\* user_collection.find_one({"email": user.email}) finds a user
existing_user(email) == \E u \in DOMAIN users : users[u].email = email

\* find_one and the test of its result: 400, or on to the insertion
RegisterCheck(email) ==
    /\ Registered + InFlight(RegEmails) < Len(RegIds)
    /\ IF existing_user(email)
       THEN /\ regResp' = RegResp(email, 400)
            /\ UNCHANGED regPending
       ELSE /\ regPending' = [regPending EXCEPT ![email] = @ + 1]
            /\ UNCHANGED regResp
    /\ UNCHANGED <<now, ekvUp, users, authVars, todoVars, schedVars, rateVars>>
    /\ UNCHANGED <<kvVars, raceVars, burstVars, peerVars, histVars>>

\* user_collection.insert_one(new_user) and the response
RegisterInsert(email) ==
    /\ regPending[email] > 0
    /\ LET id == RegIds[Registered + 1] IN
         users' = (id :> [_id |-> id, name |-> "n", email |-> email, password |-> "hash"])
                      @@ users
    /\ regPending' = [regPending EXCEPT ![email] = @ - 1]
    /\ regResp' = RegResp(email, 200)
    /\ UNCHANGED <<now, ekvUp, authVars, todoVars, schedVars, rateVars>>
    /\ UNCHANGED <<kvVars, raceVars, burstVars, peerVars, histVars>>

(***************************************************************************)
(* Operations of the authentication path                                   *)
(***************************************************************************)
Login(u) ==
    /\ u \in DOMAIN users
    /\ nextJti <= MaxTokens
    /\ LET tok == create_access_token(u, nextJti) IN
         /\ issued' = issued \cup {tok}
         /\ resp' = Resp("login", tok, 200, "token", FALSE)
    /\ nextJti' = nextJti + 1
    /\ UNCHANGED <<now, ekvUp, users, blacklist, userCache, pendingLogout, revoked>>
    /\ UNCHANGED <<todoVars, schedVars, rateVars, extVars>>

\* a direct call of decode_token
DecodeToken(tok) ==
    /\ resp' = Resp("decode_token", tok, IF decode_token(tok).ok THEN 200 ELSE 401,
                    decode_token(tok).err, FALSE)
    /\ UNCHANGED <<now, ekvUp, users, issued, nextJti, blacklist, userCache,
                   pendingLogout, revoked>>
    /\ UNCHANGED <<todoVars, schedVars, rateVars, extVars>>

\* lost: the key-value store becomes unreachable after decode_token returned,
\* so get_cache and set_cache fail
GetCurrentUser(tok, lost) ==
    LET d == decode_token(tok)
        key == tok.sub
        cached_user == IF lost THEN <<>> ELSE get_cache(userCache, key)
    IN
    /\ lost => (ekvUp /\ d.ok)
    /\ IF ~d.ok THEN
            /\ resp' = Resp("get_current_user", tok, 401, d.err, FALSE)
            /\ UNCHANGED userCache
       ELSE IF cached_user # <<>> THEN
            /\ resp' = Resp("get_current_user", tok, 200, cached_user[1].a, FALSE)
            /\ UNCHANGED userCache
       ELSE IF key \notin DOMAIN users THEN
            /\ resp' = Resp("get_current_user", tok, 401, "User not found", TRUE)
            /\ UNCHANGED userCache
       ELSE /\ userCache' = IF lost THEN userCache
                            ELSE set_cache(userCache, key,
                                           PyDict([_id |-> key, name |-> users[key].name,
                                                   email |-> users[key].email]),
                                           UserCacheExpire)
            /\ resp' = Resp("get_current_user", tok, 200, users[key], TRUE)
    /\ ekvUp' = IF lost THEN FALSE ELSE ekvUp
    /\ UNCHANGED <<now, users, issued, nextJti, blacklist, pendingLogout, revoked>>
    /\ UNCHANGED <<todoVars, schedVars, rateVars, extVars>>

\* logout, up to the return of decode_token
LogoutDecode(tok) ==
    /\ pendingLogout = <<>>
    /\ LET d == decode_token(tok) IN
         IF d.ok THEN /\ pendingLogout' = <<tok>>
                      /\ UNCHANGED resp
         ELSE /\ resp' = Resp("logout", tok, 500, d.err, FALSE)
              /\ UNCHANGED pendingLogout
    /\ UNCHANGED <<now, ekvUp, users, issued, nextJti, blacklist, userCache, revoked>>
    /\ UNCHANGED <<todoVars, schedVars, rateVars, extVars>>

\* logout, the call of revoke_jti and the response
LogoutRevoke ==
    /\ pendingLogout # <<>>
    /\ LET tok == pendingLogout[1] IN
         IF tok.exp - now > 0 /\ ~ekvUp
         THEN /\ resp' = Resp("logout", tok, 500, "ConnectionError", FALSE)
              /\ UNCHANGED <<blacklist, revoked>>
         ELSE /\ blacklist' = revoke_jti(tok.jti, tok.exp)
              /\ revoked' = IF tok.exp - now > 0 THEN revoked \cup {tok.jti} ELSE revoked
              /\ resp' = Resp("logout", tok, 200, "Logged out successfully", FALSE)
    /\ pendingLogout' = <<>>
    /\ UNCHANGED <<now, ekvUp, users, issued, nextJti, userCache>>
    /\ UNCHANGED <<todoVars, schedVars, rateVars, extVars>>

(***************************************************************************)
(* Record store and the todo services                                      *)
(***************************************************************************)
\* str(ObjectId) and datetime.isoformat(): conversions to strings
Str(id) == <<"str", id>>

Iso(t) == <<"iso", t>>

\* the dict built by get_all_todos_service / get_todo_service for one document
View(id, t) ==
    [id |-> Str(id), heading |-> t.heading, task |-> t.task, completed |-> t.completed,
     created_at |-> Iso(t.created_at), updated_at |-> Iso(t.updated_at),
     completion_time |-> IF t.completion_time # None THEN Iso(t.completion_time) ELSE <<>>,
     reminder_sent |-> t.reminder_sent]

\* ids in increasing order of insertion
RECURSIVE SortedIds(_)
SortedIds(S) ==
    IF S = {} THEN <<>>
    ELSE LET m == CHOOSE x \in S : \A y \in S : x <= y
         IN <<m>> \o SortedIds(S \ {m})

RECURSIVE MapView(_, _)
MapView(store, ids) ==
    IF ids = <<>> THEN <<>>
    ELSE <<View(Head(ids), store[Head(ids)])>> \o MapView(store, Tail(ids))

\* list(todo_collection.find({"user_id": ...})) turned into the list view
ViewList(store, u) ==
    MapView(store, SortedIds({id \in DOMAIN store : store[id].user_id = u}))

TodoResp(op, u, id, status, body, loaded) ==
    [op |-> op, user |-> u, id |-> id, status |-> status, body |-> body,
     loaded |-> loaded, ekv |-> ekvUp]

\* a validator that accepts every completion_time
validate_completion_time_any(v) == TRUE

\* TodoCreate / TodoUpdate validate_completion_time
validate_completion_time(v) == ~(v # None /\ v < now)

\* POST /todo/ : the validator, then create_todo_service
CreateTodo(u, completion_time) ==
    /\ IF ~validate_completion_time(completion_time) THEN
            /\ todoResp' = TodoResp("create", u, 0, 422, <<>>, FALSE)
            /\ UNCHANGED <<todos, nextTodoId, todosCache, mutatedSince>>
       ELSE LET new_todo == [user_id |-> u, heading |-> "h1", task |-> "t1",
                             completed |-> FALSE, created_at |-> now, updated_at |-> now,
                             completion_time |-> completion_time, reminder_sent |-> FALSE]
            IN /\ todos' = (nextTodoId :> new_todo) @@ todos
               /\ nextTodoId' = nextTodoId + 1
               /\ todosCache' = delete_cache(todosCache, u)
               /\ todoResp' = TodoResp("create", u, nextTodoId, 200, <<>>, FALSE)
               /\ mutatedSince' = [mutatedSince EXCEPT ![u] = ekvUp]
    /\ UNCHANGED <<now, ekvUp, users, authVars, schedVars, rateVars, extVars>>

\* "if cached_todos:" is false for None and for the empty list
Truthy(cached) == cached # <<>> /\ cached[1].a # <<>>

\* what get_all_todos_service returns, and whether it queried the record store
get_all_todos_service(u) ==
    LET cached_todos == get_cache(todosCache, u) IN
    IF Truthy(cached_todos)
    THEN [body |-> cached_todos[1].a, loaded |-> FALSE]
    ELSE [body |-> ViewList(todos, u), loaded |-> TRUE]

\* GET /todo/ : get_all_todos_service
\* lost: the key-value store becomes unreachable after get_cache returned a
\* miss, so set_cache fails
GetAllTodos(u, lost) ==
    LET r == get_all_todos_service(u) IN
    /\ lost => (ekvUp /\ r.loaded)
    /\ todosCache' = IF r.loaded /\ ~lost
                     THEN set_cache(todosCache, u, PyList(r.body), TodosCacheExpire)
                     ELSE todosCache
    /\ todoResp' = TodoResp("get_all", u, 0, 200, r.body, r.loaded)
    /\ mutatedSince' = [mutatedSince EXCEPT ![u] = FALSE]
    /\ ekvUp' = IF lost THEN FALSE ELSE ekvUp
    /\ UNCHANGED <<now, users, todos, nextTodoId, authVars, schedVars, rateVars, extVars>>

\* get_all_todos_service in two steps, other requests running in between:
\* get_cache misses and the records are loaded from the record store
GetAllLoad(u) ==
    /\ pendingRead = <<>>
    /\ get_all_todos_service(u).loaded
    /\ pendingRead' = <<[user |-> u, body |-> get_all_todos_service(u).body]>>
    /\ UNCHANGED <<now, ekvUp, users, authVars, todoVars, schedVars, rateVars>>
    /\ UNCHANGED <<kvVars, burstVars, peerVars, histVars, regVars>>

\* set_cache(cache_key, result, expire=300) and the return of the result
GetAllStore ==
    /\ pendingRead # <<>>
    /\ LET u == pendingRead[1].user
           result == pendingRead[1].body
       IN /\ todosCache' = set_cache(todosCache, u, PyList(result), TodosCacheExpire)
          /\ todoResp' = TodoResp("get_all", u, 0, 200, result, TRUE)
          /\ mutatedSince' = [mutatedSince EXCEPT ![u] = FALSE]
    /\ pendingRead' = <<>>
    /\ UNCHANGED <<now, ekvUp, users, todos, nextTodoId, authVars, schedVars, rateVars>>
    /\ UNCHANGED <<kvVars, burstVars, peerVars, histVars, regVars>>

\* the filter without the owner
OwnedAny(store, u, id) == id \in DOMAIN store

\* the filter {"_id": ObjectId(todo_id), "user_id": ObjectId(user_id)} matches
Owned(store, u, id) == id \in DOMAIN store /\ store[id].user_id = u

\* GET /todo/{id} : get_todo_service reads the record store, never the cache
GetTodo(u, id) ==
    /\ todoResp' = IF ~Owned(todos, u, id)
                   THEN TodoResp("get", u, id, 404, <<>>, TRUE)
                   ELSE TodoResp("get", u, id, 200, <<View(id, todos[id])>>, TRUE)
    /\ UNCHANGED <<todos, nextTodoId, todosCache, mutatedSince>>
    /\ UNCHANGED <<now, ekvUp, users, authVars, schedVars, rateVars, extVars>>

\* the fields a TodoUpdate body provides; <<>> stands for a field left unset
UpdateData(heading, task, completed, completion_time) ==
    [heading |-> heading, task |-> task, completed |-> completed,
     completion_time |-> completion_time]

UpdateInputs ==
    { UpdateData(<<>>, <<>>, <<>>, <<>>),
      UpdateData(<<"h2">>, <<>>, <<>>, <<>>),
      UpdateData(<<>>, <<>>, <<TRUE>>, <<>>) }

Provided(data) == {f \in DOMAIN data : data[f] # <<>>}

\* an update that also clears reminder_sent when it sets completed to false
ApplySetReset(t, data) ==
    [f \in DOMAIN t |->
        IF f = "updated_at" THEN now
        ELSE IF f \in Provided(data) THEN data[f][1]
        ELSE IF f = "reminder_sent" /\ data.completed = <<TRUE>> THEN TRUE
        ELSE IF f = "reminder_sent" /\ data.completed = <<FALSE>> THEN FALSE
        ELSE t[f]]

\* the document after {"$set": {**data, "updated_at": utcnow()}}
ApplySet(t, data) ==
    [f \in DOMAIN t |->
        IF f = "updated_at" THEN now
        ELSE IF f \in Provided(data) THEN data[f][1]
        ELSE IF f = "reminder_sent" /\ data.completed = <<TRUE>> THEN TRUE
        ELSE t[f]]

\* PUT /todo/{id} : the validator, then update_todo_service
UpdateTodo(u, id, data) ==
    /\ IF data.completion_time # <<>> /\ ~validate_completion_time(data.completion_time[1]) THEN
            /\ todoResp' = TodoResp("update", u, id, 422, <<>>, FALSE)
            /\ UNCHANGED <<todos, todosCache, mutatedSince>>
       ELSE IF Provided(data) = {} THEN
            /\ todoResp' = TodoResp("update", u, id, 400, <<>>, FALSE)
            /\ UNCHANGED <<todos, todosCache, mutatedSince>>
       ELSE IF ~Owned(todos, u, id) THEN
            /\ todoResp' = TodoResp("update", u, id, 404, <<>>, FALSE)
            /\ UNCHANGED <<todos, todosCache, mutatedSince>>
       ELSE /\ todos' = [todos EXCEPT ![id] = ApplySet(todos[id], data)]
            /\ todosCache' = delete_cache(todosCache, u)
            /\ todoResp' = TodoResp("update", u, id, 200, <<>>, FALSE)
            /\ mutatedSince' = [mutatedSince EXCEPT ![u] = ekvUp]
    /\ UNCHANGED <<now, ekvUp, users, nextTodoId, authVars, schedVars, rateVars, extVars>>

\* DELETE /todo/{id} : delete_todo_service
DeleteTodo(u, id) ==
    /\ IF ~Owned(todos, u, id) THEN
            /\ todoResp' = TodoResp("delete", u, id, 404, <<>>, FALSE)
            /\ UNCHANGED <<todos, todosCache, mutatedSince>>
       ELSE /\ todos' = Remove(todos, id)
            /\ todosCache' = delete_cache(todosCache, u)
            /\ todoResp' = TodoResp("delete", u, id, 200, <<>>, FALSE)
            /\ mutatedSince' = [mutatedSince EXCEPT ![u] = ekvUp]
    /\ UNCHANGED <<now, ekvUp, users, nextTodoId, authVars, schedVars, rateVars, extVars>>

(***************************************************************************)
(* Reminder scheduler: one run of check_and_send_reminders, split at its   *)
(* calls to the record store and to the notification collaborator          *)
(***************************************************************************)
\* the filter without the reminder_sent condition
CandidateAnySent(t) ==
    /\ t.completed = FALSE
    /\ t.completion_time # None

\* the filter of todo_collection.find in check_and_send_reminders
Candidate(t) ==
    /\ t.completed = FALSE
    /\ t.reminder_sent = FALSE
    /\ t.completion_time # None

RECURSIVE MapDoc(_, _)
MapDoc(store, ids) ==
    IF ids = <<>> THEN <<>>
    ELSE <<[_id |-> Head(ids), doc |-> store[Head(ids)]]>> \o MapDoc(store, Tail(ids))

Scan(store) == MapDoc(store, SortedIds({id \in DOMAIN store : Candidate(store[id])}))

\* the window with a strict lower bound
InWindowStrict(t, current_time) ==
    /\ 10 * current_time > 10 * t.created_at + 9 * (t.completion_time - t.created_at)
    /\ current_time < t.completion_time

\* current_time >= threshold_time and current_time < completion_time,
\* with threshold_time = created_at + 0.9 * (completion_time - created_at)
InWindow(t, current_time) ==
    /\ 10 * current_time >= 10 * t.created_at + 9 * (t.completion_time - t.created_at)
    /\ current_time < t.completion_time

\* user and user.get("email")
HasEmail(u) == u \in DOMAIN users /\ users[u].email # ""

\* schedule.run_pending fires the job: now = datetime.utcnow()
SchedBegin ==
    /\ schedPc = "idle"
    /\ now >= nextRun
    /\ schedNow' = now
    /\ schedPc' = "scan"
    /\ UNCHANGED <<schedQueue, runNotified, nextRun, sends, markFailed, attempts>>
    /\ UNCHANGED <<now, ekvUp, users, authVars, todoVars, rateVars, extVars>>

\* the cursor of todo_collection.find is read; a failure ends the run
SchedScan(ok) ==
    /\ schedPc = "scan"
    /\   IF ok THEN /\ schedQueue' = Scan(todos)
                    /\ schedPc' = "loop"
                    /\ UNCHANGED nextRun
         ELSE /\ schedQueue' = <<>>
              /\ schedPc' = "idle"
              /\ nextRun' = now + SchedulerIntervalMinutes * 60
    /\ UNCHANGED <<schedNow, runNotified, sends, markFailed, attempts>>
    /\ UNCHANGED <<now, ekvUp, users, authVars, todoVars, rateVars, extVars>>

\* the statement reached after send_todo_reminder, always the write of reminder_sent
AfterSendAlwaysMark(delivered) == "mark"

\* the statement reached after send_todo_reminder: the write of reminder_sent
\* when it returned, the except clause and the next iteration when it raised
AfterSend(delivered) == IF delivered THEN "mark" ELSE "loop"

\* a failure that abandons the rest of the run
AfterFailureAbort(queue) == <<>>

\* what is left to iterate after the inner except clause logged the failure
AfterFailure(queue) == Tail(queue)

\* one iteration of the loop up to the return of send_todo_reminder
SchedSend(delivered) ==
    /\ schedPc = "loop"
    /\ schedQueue # <<>>
    /\ LET todo == Head(schedQueue).doc
           id == Head(schedQueue)._id
       IN
       IF todo.completion_time = None \/ ~InWindow(todo, schedNow) \/ ~HasEmail(todo.user_id)
       THEN /\ schedQueue' = Tail(schedQueue)
            /\ UNCHANGED <<schedPc, runNotified, sends, attempts>>
       ELSE /\ sends[id] < MaxSends
            /\ runNotified' = runNotified \cup {id}
            /\ attempts' = [attempts EXCEPT ![id] = IF @ < MaxAttempts THEN @ + 1 ELSE @]
            /\ sends' = IF delivered THEN [sends EXCEPT ![id] = @ + 1] ELSE sends
            /\ schedPc' = AfterSend(delivered)
            /\ schedQueue' = IF AfterSend(delivered) = "mark" THEN schedQueue
                             ELSE AfterFailure(schedQueue)
    /\ UNCHANGED <<schedNow, nextRun, markFailed>>
    /\ UNCHANGED <<now, ekvUp, users, authVars, todoVars, rateVars, extVars>>

\* a write that saves the scanned document with reminder_sent set
MarkWriteSave(store, todo) ==
    (todo._id :> [todo.doc EXCEPT !.reminder_sent = TRUE]) @@ store

\* update_one({"_id": todo["_id"]}, {"$set": {"reminder_sent": True}}): one
\* field of the stored document with that _id, nothing when there is none
MarkWrite(store, todo) ==
    IF todo._id \in DOMAIN store
    THEN [store EXCEPT ![todo._id].reminder_sent = TRUE]
    ELSE store

\* todo_collection.update_one({"_id": ...}, {"$set": {"reminder_sent": True}})
SchedMark(written) ==
    /\ schedPc = "mark"
    /\ LET id == Head(schedQueue)._id IN
         IF written
         THEN /\ todos' = MarkWrite(todos, Head(schedQueue))
              /\ UNCHANGED markFailed
         ELSE /\ markFailed' = markFailed \cup {id}
              /\ UNCHANGED todos
    /\ schedQueue' = Tail(schedQueue)
    /\ schedPc' = "loop"
    /\ UNCHANGED <<schedNow, runNotified, nextRun, sends, attempts>>
    /\ UNCHANGED <<now, ekvUp, users, authVars, nextTodoId, todosCache, todoResp,
                   mutatedSince, rateVars, extVars>>

\* the loop is exhausted; schedule computes the next run
SchedEnd ==
    /\ schedPc = "loop"
    /\ schedQueue = <<>>
    /\ schedPc' = "idle"
    /\ nextRun' = now + SchedulerIntervalMinutes * 60
    /\ runNotified' = {}
    /\ UNCHANGED <<schedNow, schedQueue, sends, markFailed, attempts>>
    /\ UNCHANGED <<now, ekvUp, users, authVars, todoVars, rateVars, extVars>>

(***************************************************************************)
(* A second scheduler process over the same record store and notification  *)
(* collaborator, running the same check_and_send_reminders                 *)
(***************************************************************************)
PeerBegin ==
    /\ peerPc = "idle"
    /\ now >= peerNextRun
    /\ peerNow' = now
    /\ peerPc' = "scan"
    /\ UNCHANGED <<peerQueue, peerNextRun, peerSends>>
    /\ UNCHANGED <<now, ekvUp, users, authVars, todoVars, schedVars, rateVars>>
    /\ UNCHANGED <<kvVars, raceVars, burstVars, histVars, regVars>>

PeerScan ==
    /\ peerPc = "scan"
    /\ peerQueue' = Scan(todos)
    /\ peerPc' = "loop"
    /\ UNCHANGED <<peerNow, peerNextRun, peerSends>>
    /\ UNCHANGED <<now, ekvUp, users, authVars, todoVars, schedVars, rateVars>>
    /\ UNCHANGED <<kvVars, raceVars, burstVars, histVars, regVars>>

PeerSend ==
    /\ peerPc = "loop"
    /\ peerQueue # <<>>
    /\ LET todo == Head(peerQueue).doc
           id == Head(peerQueue)._id
       IN
       IF todo.completion_time = None \/ ~InWindow(todo, peerNow) \/ ~HasEmail(todo.user_id)
       THEN /\ peerQueue' = Tail(peerQueue)
            /\ UNCHANGED <<peerPc, peerSends>>
       ELSE /\ peerSends[id] < MaxSends
            /\ peerSends' = [peerSends EXCEPT ![id] = @ + 1]
            /\ peerPc' = "mark"
            /\ UNCHANGED peerQueue
    /\ UNCHANGED <<peerNow, peerNextRun>>
    /\ UNCHANGED <<now, ekvUp, users, authVars, todoVars, schedVars, rateVars>>
    /\ UNCHANGED <<kvVars, raceVars, burstVars, histVars, regVars>>

PeerMark ==
    /\ peerPc = "mark"
    /\ todos' = MarkWrite(todos, Head(peerQueue))
    /\ peerQueue' = Tail(peerQueue)
    /\ peerPc' = "loop"
    /\ UNCHANGED <<peerNow, peerNextRun, peerSends>>
    /\ UNCHANGED <<now, ekvUp, users, authVars, nextTodoId, todosCache, todoResp,
                   mutatedSince, schedVars, rateVars>>
    /\ UNCHANGED <<kvVars, raceVars, burstVars, histVars, regVars>>

PeerEnd ==
    /\ peerPc = "loop"
    /\ peerQueue = <<>>
    /\ peerPc' = "idle"
    /\ peerNextRun' = now + SchedulerIntervalMinutes * 60
    /\ UNCHANGED <<peerNow, peerQueue, peerSends>>
    /\ UNCHANGED <<now, ekvUp, users, authVars, todoVars, schedVars, rateVars>>
    /\ UNCHANGED <<kvVars, raceVars, burstVars, histVars, regVars>>

(***************************************************************************)
(* The cache helpers called with keys and values of the caller's choice    *)
(***************************************************************************)
CacheKeys == {"test:1"}

\* the values handed to set_cache
CacheValues ==
    { PyNone,
      [t |-> "bool", a |-> <<"true">>],
      [t |-> "int", a |-> <<"5">>],
      [t |-> "str", a |-> <<"data">>],
      [t |-> "list", a |-> <<>>],
      [t |-> "list", a |-> <<"1", "2">>],
      [t |-> "tuple", a |-> <<"1", "2">>],
      [t |-> "dict", a |-> <<"name", "Alice">>],
      [t |-> "intdict", a |-> <<"1", "Alice">>] }

CacheExpires == {0, 3, 60}

\* set_cache(key, value, expire); kvSet keeps the value and the end of the
\* lifetime of the last call that returned True
CacheSet(key, value, expire) ==
    /\ kv' = set_cache(kv, key, value, expire)
    /\ kvSet' = IF ekvUp /\ expire > 0
                THEN [kvSet EXCEPT ![key] = <<[v |-> value, until |-> now + expire]>>]
                ELSE kvSet
    /\ UNCHANGED <<now, ekvUp, users, authVars, todoVars, schedVars, rateVars>>
    /\ UNCHANGED <<raceVars, burstVars, peerVars, histVars, regVars>>

\* delete_cache(key); a call that returned True ends the lifetime
CacheDelete(key) ==
    /\ kv' = delete_cache(kv, key)
    /\ kvSet' = IF ekvUp THEN [kvSet EXCEPT ![key] = <<>>] ELSE kvSet
    /\ UNCHANGED <<now, ekvUp, users, authVars, todoVars, schedVars, rateVars>>
    /\ UNCHANGED <<raceVars, burstVars, peerVars, histVars, regVars>>

(***************************************************************************)
(* Admission controller                                                    *)
(***************************************************************************)
\* the limits the routes configure: register 3 per hour, login 10 per minute
RouteLimits ==
    [register |-> [max_requests |-> 3, window |-> 3600],
     login |-> [max_requests |-> 10, window |-> 60]]

RateKeys == {"register", "login"} \X Callers

\* ekv: no call of the key-value store made by the handler failed
RateResp(key, status, current, ekv) ==
    [key |-> key, status |-> status, current |-> current, ekv |-> ekv]

\* a key that leaves out the caller
RateKeyShared(key_prefix, client_ip) == <<key_prefix, "ip1">>

\* key = f"rate_limit:{key_prefix}:{client_ip}"
RateKey(key_prefix, client_ip) == <<key_prefix, client_ip>>

\* an increment that returns the value before the increment and stores nothing
IncrLost(key) == IF key \in DOMAIN rate THEN rate[key].val ELSE 1

\* redis_client.incr(key): the value after the increment
Incr(key) == IF key \in DOMAIN rate THEN rate[key].val + 1 ELSE 1

\* the comparison off by one
ExceededFromLimit(current, max_requests) == current >= max_requests

\* if current > max_requests: raise HTTPException(429)
Exceeded(current, max_requests) == current > max_requests

\* what a failing call of the key-value store raises
RedisErrors == {"ConnectionError", "TimeoutError"}

\* "except redis.ConnectionError: pass" lets the request through; every other
\* exception leaves the dependency and the request ends with 500
OnRedisError(error) == IF error = "ConnectionError" THEN 200 ELSE 500

\* the dependency check_rate_limit returned by rate_limit(key_prefix, max_requests, window)
\* error: what a failing call raises
\* lost: the key-value store becomes unreachable after incr returned 1, so
\* expire fails
RateLimit(key_prefix, client_ip, error, lost) ==
    LET scope == <<key_prefix, client_ip>>
        key == RateKey(key_prefix, client_ip)
        max_requests == RouteLimits[key_prefix].max_requests
        period == RouteLimits[key_prefix].window
        current == Incr(key)
    IN
    /\ lost => (ekvUp /\ current = 1)
    /\ IF ~ekvUp THEN
            /\ rateResp' = RateResp(scope, OnRedisError(error), 0, FALSE)
            /\ UNCHANGED <<rate, window>>
       ELSE /\ current <= max_requests + MaxOver
            /\ rate' = IF current = 1
                       THEN (key :> [val |-> 1,
                                     expireAt |-> IF lost THEN NoExpiry ELSE now + period])
                            @@ rate
                       ELSE [rate EXCEPT ![key].val = current]
            /\ window' = IF key \in DOMAIN rate
                         THEN [window EXCEPT ![scope].n = @ + 1]
                         ELSE [window EXCEPT ![scope] = [at |-> now, n |-> 1]]
            /\ rateResp' = IF lost THEN RateResp(scope, OnRedisError(error), current, FALSE)
                           ELSE RateResp(scope,
                                         IF Exceeded(current, max_requests) THEN 429 ELSE 200,
                                         current, TRUE)
    /\ ekvUp' = IF lost THEN FALSE ELSE ekvUp
    /\ UNCHANGED <<now, users, authVars, todoVars, schedVars>>
    /\ UNCHANGED <<kvVars, raceVars, burstVars, peerVars, regVars>>

\* check_rate_limit in steps, other requests running in between.
\* redis_client.incr(key), one atomic command of the key-value store
BurstIncr(key_prefix, client_ip) ==
    LET key == RateKey(key_prefix, client_ip)
        current == Incr(key)
    IN
    /\ ekvUp
    /\ rlAllowed[key] + rlDenied[key] + Cardinality({p \in rlPending : p.key = key})
           < RouteLimits[key_prefix].max_requests + MaxOver
    /\ rate' = IF key \in DOMAIN rate
               THEN [rate EXCEPT ![key].val = current]
               ELSE (key :> [val |-> current, expireAt |-> NoExpiry]) @@ rate
    /\ rlPending' = rlPending \cup
                      {[key |-> key, current |-> current,
                        pc |-> IF current = 1 THEN "expire" ELSE "compare"]}
    /\ UNCHANGED <<window, rateResp, rlAllowed, rlDenied>>
    /\ UNCHANGED <<now, ekvUp, users, authVars, todoVars, schedVars>>
    /\ UNCHANGED <<kvVars, raceVars, peerVars, histVars, regVars>>

\* if current == 1: redis_client.expire(key, window)
BurstExpire(p) ==
    /\ p \in rlPending
    /\ p.pc = "expire"
    /\ ekvUp
    /\ rate' = IF p.key \in DOMAIN rate
               THEN [rate EXCEPT ![p.key].expireAt = now + RouteLimits[p.key[1]].window]
               ELSE rate
    /\ rlPending' = (rlPending \ {p}) \cup {[p EXCEPT !.pc = "compare"]}
    /\ UNCHANGED <<window, rateResp, rlAllowed, rlDenied>>
    /\ UNCHANGED <<now, ekvUp, users, authVars, todoVars, schedVars>>
    /\ UNCHANGED <<kvVars, raceVars, peerVars, histVars, regVars>>

\* if current > max_requests: raise HTTPException(429)
BurstCompare(p) ==
    /\ p \in rlPending
    /\ p.pc = "compare"
    /\ LET exceeded == Exceeded(p.current, RouteLimits[p.key[1]].max_requests) IN
         /\ rlAllowed' = IF exceeded THEN rlAllowed
                          ELSE [rlAllowed EXCEPT ![p.key] = @ + 1]
         /\ rlDenied' = IF exceeded THEN [rlDenied EXCEPT ![p.key] = @ + 1]
                         ELSE rlDenied
         /\ rateResp' = RateResp(p.key, IF exceeded THEN 429 ELSE 200, p.current, TRUE)
    /\ rlPending' = rlPending \ {p}
    /\ UNCHANGED <<rate, window>>
    /\ UNCHANGED <<now, ekvUp, users, authVars, todoVars, schedVars>>
    /\ UNCHANGED <<kvVars, raceVars, peerVars, histVars, regVars>>

(***************************************************************************)
(* Environment: the clock and the availability of the key-value store      *)
(***************************************************************************)
Tick(S) ==
    /\ \E t \in S :
         /\ t > now
         /\ now' = t
         /\ blacklist' = Purge(blacklist, t)
         /\ userCache' = Purge(userCache, t)
         /\ todosCache' = Purge(todosCache, t)
         /\ rate' = Purge(rate, t)
         /\ kv' = Purge(kv, t)
    /\ UNCHANGED <<ekvUp, users, issued, nextJti, pendingLogout, revoked, resp>>
    /\ UNCHANGED <<todos, nextTodoId, todoResp, mutatedSince, schedVars, window, rateResp>>
    /\ UNCHANGED <<kvSet, raceVars, burstVars, peerVars, histVars, regVars>>

EkvFail ==
    /\ ekvUp
    /\ ekvUp' = FALSE
    /\ UNCHANGED <<now, users, authVars, todoVars, schedVars, rateVars, extVars>>

EkvRecover ==
    /\ ~ekvUp
    /\ ekvUp' = TRUE
    /\ UNCHANGED <<now, users, authVars, todoVars, schedVars, rateVars, extVars>>

TickAuth == Tick(AuthInstants)

Init ==
    /\ now = 0
    /\ ekvUp = TRUE
    /\ users = [u \in UserIds |-> UserDoc(u)]
    /\ issued = {}
    /\ nextJti = 1
    /\ blacklist = <<>>
    /\ userCache = <<>>
    /\ pendingLogout = <<>>
    /\ revoked = {}
    /\ resp = Resp("none", BadToken, 0, "none", FALSE)
    /\ todos = <<>>
    /\ nextTodoId = 1
    /\ todosCache = <<>>
    /\ todoResp = TodoResp("none", "u1", 0, 0, <<>>, FALSE)
    /\ mutatedSince = [u \in UserIds |-> FALSE]
    /\ schedPc = "idle"
    /\ schedNow = 0
    /\ schedQueue = <<>>
    /\ runNotified = {}
    /\ nextRun = SchedulerIntervalMinutes * 60
    /\ sends = [id \in 1..MaxRunTodos |-> 0]
    /\ markFailed = {}
    /\ attempts = [id \in 1..MaxRunTodos |-> 0]
    /\ rate = <<>>
    /\ window = [k \in RateKeys |-> [at |-> None, n |-> 0]]
    /\ rateResp = RateResp(<<"none", "none">>, 200, 0, TRUE)
    /\ kv = <<>>
    /\ kvSet = [k \in CacheKeys |-> <<>>]
    /\ pendingRead = <<>>
    /\ rlPending = {}
    /\ rlAllowed = [k \in RateKeys |-> 0]
    /\ rlDenied = [k \in RateKeys |-> 0]
    /\ peerPc = "idle"
    /\ peerNow = 0
    /\ peerQueue = <<>>
    /\ peerNextRun = SchedulerIntervalMinutes * 60
    /\ peerSends = [id \in 1..MaxRunTodos |-> 0]
    /\ allowedAt = [k \in RateKeys |-> <<>>]
    /\ regPending = [e \in RegEmails |-> 0]
    /\ regResp = RegResp("none", 0)

LoginStep == \E u \in UserIds : Login(u)

DecodeTokenStep == \E tok \in Presentable : DecodeToken(tok)

GetCurrentUserStep == \E tok \in Presentable, lost \in BOOLEAN : GetCurrentUser(tok, lost)

LogoutDecodeStep == \E tok \in Presentable : LogoutDecode(tok)

NextAuth ==
    \/ LoginStep
    \/ DecodeTokenStep
    \/ GetCurrentUserStep
    \/ LogoutDecodeStep
    \/ LogoutRevoke
    \/ TickAuth
    \/ EkvFail
    \/ EkvRecover

SpecAuth == Init /\ [][NextAuth]_vars

(***************************************************************************)
(* The scheduler against record mutations                                  *)
(***************************************************************************)
TickSched == Tick(SchedInstants)

SchedUpdateInputs ==
    { UpdateData(<<>>, <<>>, <<TRUE>>, <<>>),
      UpdateData(<<>>, <<>>, <<FALSE>>, <<>>),
      UpdateData(<<>>, <<>>, <<>>, <<DueTime>>) }

CreateTodoStep ==
    /\ nextTodoId <= MaxTodos
    /\ \E u \in UserIds, c \in {None, DueTime} : CreateTodo(u, c)

UpdateTodoSchedStep ==
    \E id \in 1..MaxTodos, data \in SchedUpdateInputs :
        id \in DOMAIN todos /\ UpdateTodo(todos[id].user_id, id, data)

DeleteTodoSchedStep ==
    \E id \in 1..MaxTodos : id \in DOMAIN todos /\ DeleteTodo(todos[id].user_id, id)

SchedScanStep == \E ok \in BOOLEAN : SchedScan(ok)

SchedSendStep == \E delivered \in BOOLEAN : SchedSend(delivered)

SchedMarkStep == \E written \in BOOLEAN : SchedMark(written)

NextSched ==
    \/ CreateTodoStep
    \/ UpdateTodoSchedStep
    \/ DeleteTodoSchedStep
    \/ SchedBegin
    \/ SchedScanStep
    \/ SchedSendStep
    \/ SchedMarkStep
    \/ SchedEnd
    \/ TickSched

SpecSched == Init /\ [][NextSched]_vars

(***************************************************************************)
(* The scheduler on its cadence: run_scheduler fires the job as soon as    *)
(* the 30 minutes since the previous run are over, so the clock never      *)
(* passes nextRun with the job idle.  Records are created and then left    *)
(* alone: none is updated, completed or deleted.                           *)
(***************************************************************************)
TickCadence ==
    /\ schedPc = "idle"
    /\ now < nextRun
    /\ Tick(CadenceInstants)
    /\ now' <= nextRun

CreateTodoCadenceStep ==
    /\ nextTodoId <= MaxTodos
    /\ \E u \in UserIds, d \in Durations : CreateTodo(u, now + d)

NextCadence ==
    \/ CreateTodoCadenceStep
    \/ SchedBegin
    \/ SchedScan(TRUE)
    \/ SchedSendStep
    \/ SchedMarkStep
    \/ SchedEnd
    \/ TickCadence

SpecCadence == Init /\ [][NextCadence]_vars

(***************************************************************************)
(* The read-through cache of list views against every writer of records    *)
(***************************************************************************)
TickCache == Tick(CacheInstants)

GetAllTodosStep == \E u \in UserIds : GetAllTodos(u, FALSE)

UpdateTodoStep ==
    \E u \in UserIds, id \in 1..MaxTodos, data \in UpdateInputs : UpdateTodo(u, id, data)

DeleteTodoStep == \E u \in UserIds, id \in 1..MaxTodos : DeleteTodo(u, id)

GetTodoStep == \E u \in UserIds, id \in 1..MaxTodos : GetTodo(u, id)

\* every request is served while the key-value store is reachable
NextCache ==
    \/ CreateTodoStep
    \/ GetAllTodosStep
    \/ GetTodoStep
    \/ UpdateTodoStep
    \/ DeleteTodoStep
    \/ SchedBegin
    \/ SchedScan(TRUE)
    \/ SchedSend(TRUE)
    \/ SchedMark(TRUE)
    \/ SchedEnd
    \/ TickCache

SpecCache == Init /\ [][NextCache]_vars

\* the key-value store may become unreachable at any moment
NextTodo ==
    \/ CreateTodoStep
    \/ GetAllTodosStep
    \/ GetTodoStep
    \/ UpdateTodoStep
    \/ DeleteTodoStep
    \/ SchedBegin
    \/ SchedScan(TRUE)
    \/ SchedSend(TRUE)
    \/ SchedMark(TRUE)
    \/ SchedEnd
    \/ TickCache
    \/ EkvFail
    \/ EkvRecover

SpecTodo == Init /\ [][NextTodo]_vars

(***************************************************************************)
(* The two read-through paths of one user while the key-value store fails  *)
(* between requests and inside a request                                   *)
(***************************************************************************)
TickRead == Tick(ReadInstants)

LoginReadStep == Login("u1")

GetCurrentUserReadStep == \E tok \in issued, lost \in BOOLEAN : GetCurrentUser(tok, lost)

CreateTodoReadStep == nextTodoId <= MaxTodos /\ CreateTodo("u1", None)

GetAllTodosReadStep == \E lost \in BOOLEAN : GetAllTodos("u1", lost)

NextRead ==
    \/ LoginReadStep
    \/ GetCurrentUserReadStep
    \/ CreateTodoReadStep
    \/ GetAllTodosReadStep
    \/ DeleteTodoSchedStep
    \/ TickRead
    \/ EkvFail
    \/ EkvRecover

SpecRead == Init /\ [][NextRead]_vars

(***************************************************************************)
(* The admission controller alone                                          *)
(***************************************************************************)
TickRate == Tick(RateInstants)

\* one caller, both rate-limited routes; a handler runs with the key-value
\* store reachable for all of its calls or for none
RateLimitStep ==
    /\ \E op \in {"register", "login"}, error \in RedisErrors :
           RateLimit(op, "ip1", error, FALSE)
    /\ UNCHANGED histVars

NextRate ==
    \/ RateLimitStep
    \/ TickRate
    \/ EkvFail
    \/ EkvRecover

SpecRate == Init /\ [][NextRate]_vars

(***************************************************************************)
(* The admission controller when the key-value store may also be lost      *)
(* between the incr and the expire of one handler                          *)
(***************************************************************************)
RateLimitFaultStep ==
    /\ \E op \in {"register", "login"}, error \in RedisErrors, lost \in BOOLEAN :
           RateLimit(op, "ip1", error, lost)
    /\ UNCHANGED histVars

NextRateFault ==
    \/ RateLimitFaultStep
    \/ TickRate
    \/ EkvFail
    \/ EkvRecover

SpecRateFault == Init /\ [][NextRateFault]_vars

(***************************************************************************)
(* The admission controller under two callers, within one second           *)
(***************************************************************************)
RateLimitFrameStep ==
    /\ \E op \in {"register", "login"}, client_ip \in Callers :
           RateLimit(op, client_ip, "ConnectionError", FALSE)
    /\ UNCHANGED histVars

NextFrame ==
    \/ RateLimitFrameStep
    \/ EkvFail
    \/ EkvRecover

SpecFrame == Init /\ [][NextFrame]_vars

(***************************************************************************)
(* The cache helpers over time, the key-value store failing and recovering *)
(***************************************************************************)
KvInstants == {0, 3, 4, 60}

TickKv == Tick(KvInstants)

CacheSetStep ==
    \E key \in CacheKeys, value \in CacheValues, expire \in CacheExpires :
        CacheSet(key, value, expire)

CacheDeleteStep == \E key \in CacheKeys : CacheDelete(key)

NextKv ==
    \/ CacheSetStep
    \/ CacheDeleteStep
    \/ TickKv
    \/ EkvFail
    \/ EkvRecover

SpecKv == Init /\ [][NextKv]_vars

(***************************************************************************)
(* One run over several candidates, with notification failures             *)
(***************************************************************************)
RunInstants == {0, 36000, 37800}

TickRun == Tick(RunInstants)

CreateTodoRunStep ==
    /\ nextTodoId <= MaxRunTodos
    /\ CreateTodo("u1", DueTime)

NextRun ==
    \/ CreateTodoRunStep
    \/ SchedBegin
    \/ SchedScan(TRUE)
    \/ SchedSendStep
    \/ SchedMark(TRUE)
    \/ SchedEnd
    \/ TickRun

SpecRun == Init /\ [][NextRun]_vars

(***************************************************************************)
(* Two scheduler processes over one record store                           *)
(***************************************************************************)
CreateTodoPeersStep ==
    /\ nextTodoId <= MaxTodos
    /\ CreateTodo("u1", DueTime)

NextPeers ==
    \/ CreateTodoPeersStep
    \/ SchedBegin
    \/ SchedScan(TRUE)
    \/ SchedSend(TRUE)
    \/ SchedMark(TRUE)
    \/ SchedEnd
    \/ PeerBegin
    \/ PeerScan
    \/ PeerSend
    \/ PeerMark
    \/ PeerEnd
    \/ TickRun

SpecPeers == Init /\ [][NextPeers]_vars

(***************************************************************************)
(* A list read in two steps next to the requests that change the records   *)
(***************************************************************************)
GetAllLoadStep == \E u \in UserIds : GetAllLoad(u)

RaceUpdateInputs ==
    { UpdateData(<<"h2">>, <<>>, <<>>, <<>>),
      UpdateData(<<>>, <<>>, <<TRUE>>, <<>>) }

UpdateTodoRaceStep ==
    \E u \in UserIds, id \in 1..MaxTodos, data \in RaceUpdateInputs : UpdateTodo(u, id, data)

NextRace ==
    \/ CreateTodoReadStep
    \/ UpdateTodoRaceStep
    \/ DeleteTodoSchedStep
    \/ GetAllLoadStep
    \/ GetAllStore
    \/ GetAllTodosStep
    \/ TickRead

SpecRace == Init /\ [][NextRace]_vars

(***************************************************************************)
(* Requests of two callers on /auth/register running side by side within   *)
(* one second                                                              *)
(***************************************************************************)
BurstIncrStep == \E client_ip \in Callers : BurstIncr("register", client_ip)

BurstExpireStep == \E p \in rlPending : BurstExpire(p)

BurstCompareStep == \E p \in rlPending : BurstCompare(p)

NextBurst ==
    \/ BurstIncrStep
    \/ BurstExpireStep
    \/ BurstCompareStep

SpecBurst == Init /\ [][NextBurst]_vars

(***************************************************************************)
(* The windows of one counter over time, the key-value store reachable     *)
(***************************************************************************)
WindowInstants == {0, 3599, 3600, 7199}

TickWindow == Tick(WindowInstants)

\* the number of allowed requests recorded for instant t
Count(bag, t) == IF t \in DOMAIN bag THEN bag[t] ELSE 0

\* a request on /auth/register; an allowed one is recorded with its instant
RateLimitWindowStep ==
    /\ RateLimit("register", "ip1", "ConnectionError", FALSE)
    /\ allowedAt' =
          IF rateResp'.status = 200
          THEN [allowedAt EXCEPT ![rateResp'.key] = (now :> (Count(@, now) + 1)) @@ @]
          ELSE allowedAt

NextWindow ==
    \/ RateLimitWindowStep
    \/ TickWindow

SpecWindow == Init /\ [][NextWindow]_vars

(***************************************************************************)
(* The write of reminder_sent next to updates and deletions of the records *)
(***************************************************************************)
\* an update of the record that is being notified, arriving between the
\* return of send_todo_reminder and the write of reminder_sent
UpdateTodoMidStep ==
    /\ schedPc = "mark"
    /\ UpdateTodo("u1", Head(schedQueue)._id, UpdateData(<<"mid">>, <<>>, <<>>, <<>>))

UpdateTodoMarkStep ==
    \E id \in 1..MaxRunTodos :
        UpdateTodo("u1", id, UpdateData(<<>>, <<>>, <<>>, <<DueTime>>))

DeleteTodoMarkStep == \E id \in 1..MaxRunTodos : DeleteTodo("u1", id)

NextMark ==
    \/ CreateTodoRunStep
    \/ UpdateTodoMidStep
    \/ UpdateTodoMarkStep
    \/ DeleteTodoMarkStep
    \/ SchedBegin
    \/ SchedScan(TRUE)
    \/ SchedSend(TRUE)
    \/ SchedMark(TRUE)
    \/ SchedEnd
    \/ TickRun

SpecMark == Init /\ [][NextMark]_vars

(***************************************************************************)
(* Register requests running side by side                                  *)
(***************************************************************************)
RegisterCheckStep == \E email \in RegEmails : RegisterCheck(email)

RegisterInsertStep == \E email \in RegEmails : RegisterInsert(email)

NextRegister ==
    \/ RegisterCheckStep
    \/ RegisterInsertStep

SpecRegister == Init /\ [][NextRegister]_vars

(***************************************************************************)
(* The validator of completion_time: requests with a completion_time       *)
(* before, at and after the clock                                          *)
(***************************************************************************)
ValidateInstants == {0, 300, 600}

CompletionInputs == {None} \cup ValidateInstants

TickValidate == Tick(ValidateInstants)

CreateTodoValidateStep ==
    /\ nextTodoId <= MaxTodos
    /\ \E c \in CompletionInputs : CreateTodo("u1", c)

UpdateTodoValidateStep ==
    \E id \in 1..MaxTodos, c \in CompletionInputs :
        UpdateTodo("u1", id, UpdateData(<<>>, <<>>, <<>>, <<c>>))

GetAllTodosValidateStep == GetAllTodos("u1", FALSE)

NextValidate ==
    \/ CreateTodoValidateStep
    \/ UpdateTodoValidateStep
    \/ GetAllTodosValidateStep
    \/ TickValidate

SpecValidate == Init /\ [][NextValidate]_vars

(***************************************************************************)
(* Properties                                                              *)
(***************************************************************************)
TokenOf(j) == CHOOSE tok \in issued : tok.jti = j

\* C1: a token revoked through logout before its exp is rejected by every
\* later verification while the key-value store is reachable: by decode_token
\* and by get_current_user, through the blacklist entry while now < exp and
\* through expiry from exp on.
C1_RevokedTokenRejected ==
    /\ \A tok \in issued :
         (tok.jti \in revoked /\ ekvUp) =>
            /\ ~decode_token(tok).ok
            /\ now < tok.exp => tok.jti \in DOMAIN blacklist
            /\ now >= tok.exp => decode_token(tok).err = "ExpiredSignatureError"
    /\ (resp.op \in {"decode_token", "get_current_user"} /\ resp.tok.jti \in revoked /\ resp.ekv)
          => resp.status = 401

\* a revoked, unexpired token whose subject is cached was presented and rejected
C1_Witness ==
    /\ resp.op = "get_current_user"
    /\ resp.tok.jti \in revoked
    /\ resp.ekv
    /\ resp.status = 401
    /\ now < resp.tok.exp
    /\ resp.tok.sub \in DOMAIN userCache

\* C2: while the key-value store is reachable, the first list read of owner U
\* after a successful create, update or delete for U returns the list view of
\* the records the store holds for U at that moment.
C2_ListReadReflectsMutation ==
    [][\A u \in UserIds :
         (mutatedSince[u] /\ ~mutatedSince'[u]) =>
            /\ todoResp'.op = "get_all"
            /\ todoResp'.user = u
            /\ todoResp'.body = ViewList(todos', u)]_vars

\* a list read that followed an update shows the updated heading
C2_Witness ==
    /\ todoResp.op = "get_all"
    /\ ~mutatedSince[todoResp.user]
    /\ todoResp.body # <<>>
    /\ todoResp.body = ViewList(todos, todoResp.user)
    /\ \E id \in DOMAIN todos : todos[id].user_id = todoResp.user /\ todos[id].heading = "h2"

\* C3: for one scope key with limit L and window W, while the key-value store
\* is reachable: a request is allowed iff it is one of the first L requests
\* counted from the request that created the counter, and the counter exists
\* exactly until W seconds after that first request.
C3_RequestStep(k) ==
    /\ now' = now
    /\ rateResp'.key = k
    /\ rateResp'.ekv
    /\ <<rate, window, rateResp>> # <<rate', window', rateResp'>>

C4_AtMostOnce == \A id \in 1..MaxTodos : sends[id] <= 1

\* C4 amended: a record is notified successfully more than once only if a
\* write that marks reminder_sent failed after a successful notification.
C4_AtMostOnceUnlessMarkFailed ==
    \A id \in 1..MaxTodos : sends[id] <= 1 \/ id \in markFailed

\* a later run inside the window finds the marked record no longer a candidate
C4_Witness ==
    \E id \in DOMAIN todos :
        /\ sends[id] = 1
        /\ id \notin markFailed
        /\ ~todos[id].completed
        /\ todos[id].reminder_sent
        /\ schedPc = "loop"
        /\ schedQueue = <<>>
        /\ runNotified = {}
        /\ InWindow(todos[id], schedNow)

\* C5: in a run that read the clock value schedNow, exactly the records with
\* completed=false, reminder_sent=false and completion_time set are scanned,
\* and a scanned record is notified iff
\* created_at + 0.9 * (completion_time - created_at) <= schedNow < completion_time
\* (its owner having an email).
C5_Fires(t, n) ==
    /\ ~t.completed
    /\ ~t.reminder_sent
    /\ t.completion_time # None
    /\ 10 * t.created_at + 9 * (t.completion_time - t.created_at) <= 10 * n
    /\ n < t.completion_time
    /\ t.user_id \in DOMAIN users
    /\ users[t.user_id].email # ""

C5_Scanned(t) == ~t.completed /\ ~t.reminder_sent /\ t.completion_time # None

C5_ThresholdRule ==
    [][/\ (schedPc = "scan" /\ schedPc' = "loop") =>
            /\ {e._id : e \in {schedQueue'[i] : i \in DOMAIN schedQueue'}}
                  = {id \in DOMAIN todos : C5_Scanned(todos[id])}
            /\ \A i \in DOMAIN schedQueue' : schedQueue'[i].doc = todos[schedQueue'[i]._id]
       /\ (schedPc = "loop" /\ schedQueue # <<>>
             /\ (schedQueue' # schedQueue \/ schedPc' # schedPc)) =>
            LET e == Head(schedQueue) IN
            /\ runNotified' \subseteq runNotified \cup {e._id}
            /\ (e._id \in runNotified') <=> C5_Fires(e.doc, schedNow)]_vars

\* a record is notified at the very second of its threshold
C5_Witness ==
    /\ schedPc = "mark"
    /\ Head(schedQueue)._id \in runNotified
    /\ 10 * schedNow = 10 * Head(schedQueue).doc.created_at
          + 9 * (Head(schedQueue).doc.completion_time - Head(schedQueue).doc.created_at)

\* C6 as stated: for a token that was never revoked, decode_token succeeds at
\* every time now < exp and fails with the expired-credential error from exp on.
C6_VerifyUntilExpiry ==
    \A tok \in issued :
        tok.jti \notin revoked =>
            /\ now < tok.exp => decode_token(tok).ok
            /\ now >= tok.exp => decode_token(tok).err = "ExpiredSignatureError"

C8_SecondReadFromCache ==
    \A u \in UserIds :
        (todoResp.op = "get_all" /\ todoResp.user = u /\ todoResp.ekv /\ ekvUp
            /\ u \in DOMAIN todosCache)
          => /\ get_all_todos_service(u).body = todoResp.body
             /\ ~get_all_todos_service(u).loaded

\* C9 as stated: in no reachable state does a cached list view differ from
\* the list view of the stored records.
C9_NoStaleListView ==
    \A u \in DOMAIN todosCache :
        JsonLoads(todosCache[u].val) = PyList(ViewList(todos, u))

\* C10 as stated: whenever send_todo_reminder delivers a notification for a
\* record, the stored completed flag of that record was false when the
\* notification collaborator was invoked.
C10_NoNotificationForCompleted ==
    [][\A id \in DOMAIN sends :
          sends'[id] > sends[id] => ~(id \in DOMAIN todos /\ todos[id].completed)]_vars

\* C11 as stated: a record with a deadline that was neither completed nor
\* deleted before the deadline, whose owner has an email, has had exactly one
\* notification attempt by the time the deadline is reached, the scheduler
\* having run on its cadence.
C11_ExactlyOneAttempt ==
    \A id \in DOMAIN todos :
        (/\ todos[id].completion_time # None
         /\ now >= todos[id].completion_time
         /\ ~todos[id].completed
         /\ HasEmail(todos[id].user_id))
          => attempts[id] = 1

\* C12: an iteration in which send_todo_reminder raises writes no record and
\* skips the write of reminder_sent; as long as no notification was delivered
\* reminder_sent becomes true only through an update that completes the
\* record; and the next run scans every record whose earlier attempt failed
\* and that still has completed=false and reminder_sent=false, and calls the
\* notification collaborator for it again when the run's clock value is
\* inside the window.
C12_FailedSendRetried ==
    [][/\ \A id \in 1..MaxTodos :
            (id \in runNotified' /\ id \notin runNotified /\ sends' = sends) =>
                /\ todos' = todos
                /\ schedPc' = "loop"
                /\ schedQueue' = Tail(schedQueue)
       /\ \A id \in DOMAIN todos \cap DOMAIN todos' :
            (sends[id] = 0 /\ sends'[id] = 0
                /\ ~todos[id].reminder_sent /\ todos'[id].reminder_sent)
              => todos'[id].completed
       /\ (schedPc = "scan" /\ schedPc' = "loop") =>
            \A id \in DOMAIN todos :
                (attempts[id] >= 1 /\ sends[id] = 0 /\ ~todos[id].completed
                    /\ ~todos[id].reminder_sent /\ todos[id].completion_time # None)
                  => \E i \in DOMAIN schedQueue' : schedQueue'[i]._id = id
       /\ (schedPc = "loop" /\ schedQueue # <<>>
             /\ (schedQueue' # schedQueue \/ schedPc' # schedPc)) =>
            LET e == Head(schedQueue) IN
            (attempts[e._id] >= 1 /\ sends[e._id] = 0 /\ InWindow(e.doc, schedNow)
                /\ HasEmail(e.doc.user_id))
              => e._id \in runNotified']_vars

\* the first attempt failed, the next run called the collaborator again and
\* this time it delivered
C12_Witness ==
    \E id \in DOMAIN todos :
        /\ attempts[id] = 2
        /\ sends[id] = 1
        /\ id \notin markFailed
        /\ ~todos[id].reminder_sent
        /\ schedPc = "mark"
        /\ schedNow = 37800

\* C13 as stated: when the key-value store is unreachable at the revocation
\* check, get_current_user authenticates the bearer of a correctly signed,
\* unexpired token.
C13_VerificationFailsOpen ==
    [][(/\ resp' # resp
        /\ resp'.op = "get_current_user"
        /\ ~ekvUp
        /\ jwt_decode(resp'.tok).ok)
          => resp'.status = 200]_vars

\* C16 as stated: a logout whose token is wrongly signed, expired or revoked
\* ends with 401.
C16_LogoutUnauthenticated ==
    (resp.op = "logout" /\ resp.body \in {"InvalidTokenError", "ExpiredSignatureError"})
        => resp.status = 401

\* a request of get_todo_service, update_todo_service or delete_todo_service
\* that names a stored record of another owner completes
C17_ForeignRequest ==
    /\ todoResp' # todoResp
    /\ todoResp'.op \in {"get", "update", "delete"}
    /\ todoResp'.id \in DOMAIN todos
    /\ todos[todoResp'.id].user_id # todoResp'.user

\* a list read returns only records of the caller
C17_ListOwnOnly ==
    (todoResp' # todoResp /\ todoResp'.op = "get_all") =>
        \A i \in DOMAIN todoResp'.body : \A id \in DOMAIN todos :
            todoResp'.body[i].id = Str(id) => todos[id].user_id = todoResp'.user

\* C17 as stated: a request by a caller who does not own the record returns
\* 404 and changes neither a record nor a cache entry, and a list read never
\* contains a record of another owner.
C17_ForeignAlwaysNotFound ==
    [][/\ C17_ForeignRequest =>
            (todoResp'.status = 404 /\ todos' = todos /\ todosCache' = todosCache)
       /\ C17_ListOwnOnly]_vars

\* C17 amended: the request returns 404, or 400 when it is an update that
\* carries no field; it changes neither a record nor a cache entry, and a
\* list read never contains a record of another owner.
C17_ForeignNeverServed ==
    [][/\ C17_ForeignRequest =>
            /\ \/ todoResp'.status = 404
               \/ todoResp'.op = "update" /\ todoResp'.status = 400
            /\ todos' = todos
            /\ todosCache' = todosCache
       /\ C17_ListOwnOnly]_vars

\* an update by another caller was refused while the owner's list is cached
C17_Witness ==
    /\ todoResp.op = "update"
    /\ todoResp.status = 404
    /\ todoResp.id \in DOMAIN todos
    /\ todos[todoResp.id].user_id # todoResp.user
    /\ todos[todoResp.id].user_id \in DOMAIN todosCache
    /\ todos[todoResp.id].heading = "h1"

\* C18: reminder_sent of a record is false at creation, never goes back to
\* false, and becomes true only through the scheduler's write after a
\* delivered notification or through an update that sets completed to true.
C18_ReminderSentMonotone ==
    [][/\ \A id \in DOMAIN todos' \ DOMAIN todos : ~todos'[id].reminder_sent
       /\ \A id \in DOMAIN todos \cap DOMAIN todos' :
            /\ todos[id].reminder_sent => todos'[id].reminder_sent
            /\ (~todos[id].reminder_sent /\ todos'[id].reminder_sent) =>
                  \/ schedPc = "mark" /\ Head(schedQueue)._id = id /\ sends[id] >= 1
                  \/ todoResp'.op = "update" /\ todoResp'.id = id
                        /\ todos'[id].completed]_vars

\* a record completed and then set back to not completed keeps reminder_sent
C18_Witness ==
    \E id \in DOMAIN todos :
        /\ todos[id].reminder_sent
        /\ ~todos[id].completed
        /\ sends[id] = 0
        /\ todoResp.op = "update"
        /\ todoResp.status = 200
        /\ todoResp.id = id

\* C15: a list read during which the key-value store is unreachable returns
\* the list view loaded from the record store and writes no cache entry; a
\* get_current_user whose get_cache and set_cache fail returns the user
\* loaded from the user store and writes no cache entry; and whenever an
\* entry is written it holds the whole derived view.
C15_CacheFailureIsMiss ==
    [][/\ (todoResp' # todoResp /\ todoResp'.op = "get_all" /\ ~ekvUp') =>
            /\ todoResp'.status = 200
            /\ todoResp'.loaded
            /\ todoResp'.body = ViewList(todos, todoResp'.user)
            /\ todosCache' = todosCache
       /\ (resp' # resp /\ resp'.op = "get_current_user" /\ ekvUp /\ ~ekvUp') =>
            /\ resp'.status = 200
            /\ resp'.loaded
            /\ resp'.body = users[resp'.tok.sub]
            /\ userCache' = userCache
       /\ \A u \in DOMAIN todosCache' :
            (u \notin DOMAIN todosCache \/ todosCache'[u] # todosCache[u]) =>
                JsonLoads(todosCache'[u].val) = PyList(ViewList(todos, u))
       /\ \A u \in DOMAIN userCache' :
            (u \notin DOMAIN userCache \/ userCache'[u] # userCache[u]) =>
                JsonLoads(userCache'[u].val)
                    = PyDict([_id |-> u, name |-> users[u].name,
                              email |-> users[u].email])]_vars

\* a list read found the store unreachable while an entry of the owner was
\* cached, and returned the records loaded from the record store
C15_Witness ==
    /\ todoResp.op = "get_all"
    /\ ~todoResp.ekv
    /\ ~ekvUp
    /\ todoResp.loaded
    /\ todoResp.body # <<>>
    /\ todoResp.user \in DOMAIN todosCache
    /\ resp.op = "get_current_user"
    /\ resp.status = 200
    /\ resp.loaded
    /\ resp.tok.sub \notin DOMAIN userCache

\* C14 as stated: a request during which a call of the key-value store made
\* by the rate limiter failed is allowed.
C14_LimiterFailsOpen == ~rateResp.ekv => rateResp.status = 200

\* C19 as stated: no request changes the expiry of a counter that exists,
\* and every counter expires exactly W seconds after the request that
\* created it.
C19_WindowFixed ==
    [][/\ \A k \in DOMAIN rate \cap DOMAIN rate' :
            now' = now => rate'[k].expireAt = rate[k].expireAt
       /\ \A k \in DOMAIN rate' :
            rate'[k].expireAt = window'[k].at + RouteLimits[k[1]].window]_vars

\* the counter of scope k is created, changed or removed
C20_Touched(k) ==
    IF k \in DOMAIN rate /\ k \in DOMAIN rate'
    THEN rate'[k] # rate[k]
    ELSE (k \in DOMAIN rate) # (k \in DOMAIN rate')

\* C20: a request changes no counter but the one of its own (operation,
\* caller) pair, and it is denied only when that pair itself has made more
\* requests than its limit since its counter was created.
C20_ScopeIsolation ==
    [][/\ \A k \in RateKeys : (now' = now /\ C20_Touched(k)) => rateResp'.key = k
       /\ (now' = now /\ rateResp' # rateResp /\ rateResp'.status = 429) =>
            /\ window'[rateResp'.key].n > RouteLimits[rateResp'.key[1]].max_requests
            /\ rateResp'.current = window'[rateResp'.key].n]_vars

\* a login of ip2 is allowed although ip2 has exhausted its register budget
\* and ip1 has exhausted its login budget
C20_Witness ==
    /\ rateResp.key = <<"login", "ip2">>
    /\ rateResp.status = 200
    /\ rateResp.ekv
    /\ <<"register", "ip2">> \in DOMAIN rate
    /\ rate[<<"register", "ip2">>].val > RouteLimits.register.max_requests
    /\ <<"login", "ip1">> \in DOMAIN rate
    /\ rate[<<"login", "ip1">>].val > RouteLimits.login.max_requests

\* C21 as stated: the outcome of decode_token for a token and a clock value
\* is the outcome of the signature and expiry check alone, whatever the
\* key-value store holds and whether or not it is reachable.
C21_VerifyIgnoresRegistry ==
    \A tok \in Presentable : decode_token(tok) = jwt_decode(tok)

\* C23 as stated: no request of the authentication path ends with a server
\* error because the key-value store is unreachable.
C23_NoServerErrorFromEkv ==
    ~(resp.status = 500 /\ resp.body = "ConnectionError")

\* C24: the revoke_jti of a logout changes no blacklist entry but the one of
\* its jti and leaves the outcome of the verification of every other issued
\* token as it was; issuing a token changes nothing in the blacklist.
C24_RevocationFrame ==
    [][/\ (pendingLogout # <<>> /\ pendingLogout' = <<>>) =>
            \A tok \in issued :
                tok.jti # pendingLogout[1].jti =>
                    /\ tok.jti \in DOMAIN blacklist' <=> tok.jti \in DOMAIN blacklist
                    /\ tok.jti \in DOMAIN blacklist =>
                           blacklist'[tok.jti] = blacklist[tok.jti]
                    /\ decode_token(tok)' = decode_token(tok)
       /\ issued' # issued => blacklist' = blacklist]_vars

\* of two unexpired tokens of one subject the revoked one is in the
\* blacklist and the other one has just been accepted
C24_Witness ==
    \E t1 \in issued :
        /\ t1.jti \in DOMAIN blacklist
        /\ t1.jti # resp.tok.jti
        /\ t1.sub = resp.tok.sub
        /\ resp.op = "get_current_user"
        /\ resp.status = 200
        /\ resp.tok.jti \notin DOMAIN blacklist
        /\ now < resp.tok.exp
        /\ ekvUp

\* C30 as stated: every key of the key-value store carries an expiry.
C30_EveryKeyExpires ==
    /\ \A k \in DOMAIN rate : rate[k].expireAt # NoExpiry
    /\ \A k \in DOMAIN blacklist : blacklist[k].expireAt # NoExpiry
    /\ \A k \in DOMAIN userCache : userCache[k].expireAt # NoExpiry
    /\ \A k \in DOMAIN todosCache : todosCache[k].expireAt # NoExpiry

\* the step writes the completion_time of record id
C25_Written(id) ==
    /\ id \in DOMAIN todos'
    /\ todos'[id].completion_time # None
    /\ id \in DOMAIN todos => todos'[id].completion_time # todos[id].completion_time

\* a request rejected by the validator leaves the record store and the cache
\* as they were
C25_RejectedUnchanged ==
    (todoResp' # todoResp /\ todoResp'.status = 422) =>
        /\ todoResp'.op \in {"create", "update"}
        /\ todos' = todos
        /\ todosCache' = todosCache

C22_Fires(e) ==
    /\ e.doc.completion_time # None
    /\ InWindow(e.doc, schedNow)
    /\ HasEmail(e.doc.user_id)

\* a candidate notified in this run and never delivered: its attempt failed
C22_FailedInRun == \E f \in runNotified : sends[f] = 0

\* C22: within one run, a failed notification of the candidate at the head
\* leaves the run in its loop with every remaining candidate still to be
\* iterated; after a failure in the run every further candidate is notified
\* iff it meets the firing condition; and the run ends only when no candidate
\* is left.
C22_FailureKeepsRunGoing ==
    [][/\ (schedPc = "loop" /\ schedQueue # <<>>
             /\ Head(schedQueue)._id \in runNotified' \ runNotified
             /\ sends' = sends) =>
            /\ schedPc' = "loop"
            /\ schedQueue' = Tail(schedQueue)
            /\ nextRun' = nextRun
       /\ (schedPc = "loop" /\ schedQueue # <<>> /\ C22_FailedInRun
             /\ (schedQueue' # schedQueue \/ schedPc' # schedPc)) =>
            /\ schedPc' \in {"loop", "mark"}
            /\ Head(schedQueue)._id \in runNotified' <=> C22_Fires(Head(schedQueue))
       /\ (schedPc = "loop" /\ schedPc' = "idle") => schedQueue = <<>>]_vars

\* after the notification of one candidate failed, a later candidate of the
\* same run has been notified
C22_Witness ==
    /\ schedPc = "mark"
    /\ Head(schedQueue)._id \in runNotified
    /\ sends[Head(schedQueue)._id] = 1
    /\ \E f \in runNotified :
           /\ f # Head(schedQueue)._id
           /\ sends[f] = 0
           /\ attempts[f] >= 1

\* get_cache returned None
C26_IsNone(r) == r = <<>> \/ r = <<PyNone>>

\* the value is built from None, booleans, numbers, strings, lists and dicts
\* with string keys
C26_JsonShaped(v) == v.t \in {"NoneType", "bool", "int", "str", "list", "dict"}

C27_AtMostOncePerInstance ==
    \A id \in 1..MaxTodos : sends[id] <= 1 /\ peerSends[id] <= 1

\* ... and both processes have notified the same record in runs that read
\* the same clock value, no write of reminder_sent having failed
C27_Witness ==
    \E id \in DOMAIN todos :
        /\ sends[id] = 1
        /\ peerSends[id] = 1
        /\ markFailed = {}
        /\ schedNow = peerNow
        /\ todos[id].reminder_sent

\* C28 as stated: once a list read that missed the cache and the requests
\* that ran next to it have returned, the cached list view of every owner
\* is absent or the list view of the stored records, so the next list read
\* returns the list view of the stored records.
C28_NoStaleViewAfterRace ==
    pendingRead = <<>> =>
        \A u \in UserIds : get_all_todos_service(u).body = ViewList(todos, u)

\* the smaller of two numbers
C29_Min(a, b) == IF a < b THEN a ELSE b

\* C29: when no request on a key is in flight, the requests on it that were
\* allowed are min(N, L) of the N that incremented its counter, and the
\* others were refused; at no time are more than L allowed.
C29_ExactlyMinAllowed ==
    \A k \in RateKeys :
        /\ rlAllowed[k] <= RouteLimits[k[1]].max_requests
        /\ {p \in rlPending : p.key = k} = {} =>
              LET n == IF k \in DOMAIN rate THEN rate[k].val ELSE 0 IN
              /\ rlAllowed[k] = C29_Min(n, RouteLimits[k[1]].max_requests)
              /\ rlAllowed[k] + rlDenied[k] = n

\* more requests than the limit have been processed on one key while the
\* requests of the other caller are still in flight, the first of them not
\* having set the expiry yet
C29_Witness ==
    \E k \in RateKeys, p \in rlPending :
        /\ {q \in rlPending : q.key = k} = {}
        /\ rlAllowed[k] = RouteLimits[k[1]].max_requests
        /\ rlDenied[k] >= 1
        /\ p.key # k
        /\ p.pc = "expire"
        /\ rate[p.key].val > 1

\* the number of requests recorded in bag at the instants of S
RECURSIVE C31_Sum(_, _)
C31_Sum(bag, S) ==
    IF S = {} THEN 0
    ELSE LET t == CHOOSE x \in S : TRUE IN bag[t] + C31_Sum(bag, S \ {t})

\* the requests on key k allowed at the instants from a to b
C31_Allowed(k, a, b) ==
    C31_Sum(allowedAt[k], {t \in DOMAIN allowedAt[k] : a <= t /\ t <= b})

\* C31: in every time interval of length W the requests allowed on one key
\* are at most 2 x L.
C31_AtMostTwiceLimit ==
    \A k \in RateKeys :
        \A a \in DOMAIN allowedAt[k] :
            C31_Allowed(k, a, a + RouteLimits[k[1]].window)
                <= 2 * RouteLimits[k[1]].max_requests

\* more than L requests on one key have been allowed within less than W
\* seconds, in two windows that meet
C31_Witness ==
    \E k \in RateKeys :
        \E a \in DOMAIN allowedAt[k] :
            /\ C31_Allowed(k, a, a + RouteLimits[k[1]].window - 1)
                   > RouteLimits[k[1]].max_requests
            /\ window[k].at > a

\* C32: the write of reminder_sent that follows a notification changes no
\* field but reminder_sent of the stored record with the notified id, keeps
\* every field an update wrote to that record after the scan, changes no
\* other record and creates no record.
C32_MarkWritesOneField ==
    [][(schedPc = "mark" /\ schedPc' = "loop") =>
          /\ DOMAIN todos' = DOMAIN todos
          /\ \A id \in DOMAIN todos :
                /\ id # Head(schedQueue)._id => todos'[id] = todos[id]
                /\ \A f \in DOMAIN todos[id] \ {"reminder_sent"} :
                       todos'[id][f] = todos[id][f]
                /\ id = Head(schedQueue)._id => todos'[id].reminder_sent]_vars

\* the record notified in this run was updated between its notification and
\* the write of reminder_sent and carries both writes, next to another record
\* that the write left alone
C32_Witness ==
    /\ schedPc = "loop"
    /\ \E id \in runNotified :
           /\ id \in DOMAIN todos
           /\ sends[id] = 1
           /\ todos[id].heading = "mid"
           /\ todos[id].reminder_sent
           /\ \E other \in DOMAIN todos : other # id /\ ~todos[other].reminder_sent

\* C33 as stated: the user store holds at most one user per email.
C33_OneUserPerEmail ==
    \A u \in DOMAIN users, v \in DOMAIN users :
        users[u].email = users[v].email => u = v

====
